---- MODULE Spec2Model ----
(***************************************************************************)
(* Model of src/src/index.ts: the process-wide stylesheet caches           *)
(* (sheetCache, cssTextCache, inflight), fetchCss, and HalixLitElement     *)
(* (context setter, addStylesheet, addStylesheets).                        *)
(*                                                                         *)
(* JavaScript runs the code on one thread; an async function runs          *)
(* synchronously up to its first pending await and every continuation is   *)
(* a separate job.  Each action below is one such synchronous run: the     *)
(* call up to its first await, or one continuation up to the next await.   *)
(***************************************************************************)
EXTENDS Naturals, Sequences, FiniteSets

VARIABLES
    supportsAdopted,   \* index.ts:253, computed once at module load
    sheetCache,        \* index.ts:254, Map url -> CSSStyleSheet (0 = no entry)
    cssTextCache,      \* index.ts:255, Map url -> <<has entry, text>>
    inflight,          \* index.ts:256, Map url -> Promise<string> (0 = no entry)
    promises,          \* the promises p created at index.ts:264, by identity
    sheets,            \* the CSSStyleSheet objects created at index.ts:347
    fetchCalls,        \* the fetchCss calls made so far, in call order
    calls,             \* the addStylesheet / addStylesheets calls made so far
    appliedCssUrls,    \* index.ts:296, per instance
    adoptedStyleSheets,\* renderRoot.adoptedStyleSheets, per instance
    styleElements,     \* <style> children of renderRoot, per instance
    fetches,           \* history: every fetch(url) issued at index.ts:268
    context,           \* index.ts:293, _context per instance
    setterLog,         \* history: what the last context assignment did, in order
    invoked,           \* history: invocations made by the setter, per instance
    assignments,       \* history: context assignments per instance
    assigned,          \* history: the value last assigned, per instance
    history,           \* history: every value assigned, in order, per instance
    hookSaw,           \* history: this._context as each hook invocation found it
    raised,            \* history: the last assignment ended with an exception
    hookRaised,        \* history: the hook run by the last assignment raised
    initializeCalls,   \* history: the calls of initializeContext (index.ts:232)
    sdkCalls           \* history: the configs handed to actionSdk.initialize

cssVars == <<supportsAdopted, sheetCache, cssTextCache, inflight, promises,
             sheets, fetchCalls, calls, appliedCssUrls, adoptedStyleSheets, styleElements,
             fetches>>
sdkVars == <<initializeCalls, sdkCalls>>
ctxVars == <<context, setterLog, invoked, assignments, assigned, history,
             hookSaw, raised, hookRaised, sdkVars>>
vars == <<cssVars, ctxVars>>

-----------------------------------------------------------------------------
(* Bounds of the model *)

\* total number of urls handed to addStylesheet and addStylesheets, over all
\* the calls made (an array of n entries counts n)
MaxEntries == 2
\* the same total in the runs that hand in one url only
MaxOneUrlEntries == 3
\* total number of context assignments, over all instances
MaxSets == 3
\* the total of urls handed in, in the runs checked for termination
MaxLiveEntries == 2
\* number of calls of initializeContext
MaxInitializeCalls == 2

\* component instances
Instances == {1, 2, 3}

-----------------------------------------------------------------------------
(* JavaScript values handed in as `url`: <<typeof, value>> *)

UrlA == <<"string", "a.css">>
UrlB == <<"string", "b.css">>
EmptyString == <<"string", "">>
Number42 == <<"number", "42">>

\* what a caller may pass where a url is expected
Values == {UrlA, UrlB, EmptyString, Number42}

\* JS truthiness, as `!url` (index.ts:376) evaluates it
Truthy(v) ==
    CASE v[1] = "string" -> v[2] # ""
      [] v[1] = "number" -> v[2] \notin {"0", "NaN"}
      [] OTHER -> FALSE

\* typeof url === 'string' (index.ts:376)
TypeofString(v) == v[1] = "string"

\* The body received by the retrieval of promise p.  Every retrieval
\* receives its own body: the code never compares two bodies, so bodies that
\* happen to be equal change nothing it does.
Body(p) == <<"css", p>>

NoPromise == 0
NoSheet == 0
NoBody == <<"none", 0>>
NoText == <<FALSE, NoBody>>
NoError == <<"none", 0>>

\* what `await sheet.replace(cssText)` (index.ts:348) throws when it
\* rejects, for the sheet constructed at index.ts:347
ReplaceError(sheet) == <<"replace", sheet>>

-----------------------------------------------------------------------------
(* fetchCss, index.ts:258-283 *)

\* a fetchCss that never looks at inflight
InflightHasNever(url) == FALSE

\* inflight.has(url), index.ts:260
InflightHas(url) == inflight[url] # NoPromise

\* a fetchCss that never looks at cssTextCache
CacheHasNever(url) == FALSE

\* cssTextCache.has(url), index.ts:265
CacheHas(url) == cssTextCache[url][1]

\* a fetchCss that does not store the text
CacheSetNothing(cache, url, text) == cache

\* cssTextCache.set(url, text), index.ts:273
CacheSet(cache, url, text) == [cache EXCEPT ![url] = <<TRUE, text>>]

\* inflight.set(url, p), index.ts:277
InflightSet(m, url, p) == [m EXCEPT ![url] = p]

\* a fetchCss without the finally block
InflightKeep(m, url) == m

\* inflight.delete(url) in the finally block, index.ts:280-282
InflightDelete(m, url) == [m EXCEPT ![url] = NoPromise]

\* a promise that retrieves the text whether it is cached or not
NewPromiseUncached(url) ==
    [url |-> url, state |-> "fetch", issued |-> TRUE,
     text |-> NoBody, err |-> NoError]

\* The promise p of index.ts:264-275 as it stands when the async arrow
\* function returns control: already resolved with the cached text
\* (index.ts:265-267), or waiting for fetch(url) (index.ts:268).
NewPromise(url) ==
    IF CacheHas(url)
    THEN [url |-> url, state |-> "resolved", issued |-> FALSE,
          text |-> cssTextCache[url][2], err |-> NoError]
    ELSE [url |-> url, state |-> "fetch", issued |-> TRUE,
          text |-> NoBody, err |-> NoError]

\* an await that a rejection never wakes
SettledWhenResolved(p) == promises[p].state = "resolved"

\* `await p` (index.ts:279) and the await of the promise a joiner returned
\* (index.ts:261, 341) go on once p is fulfilled or rejected
Settled(p) == promises[p].state \in {"resolved", "rejected"}

\* fetchCss calls that have not settled yet, for one url
PendingFetchCalls(url) ==
    {f \in 1..Len(fetchCalls) :
        fetchCalls[f].url = url /\ fetchCalls[f].state = "pending"}

\* The synchronous part of fetchCss(url), index.ts:258-279: join the
\* registered promise, or create p, register it and await it.
\* The new call is fetchCalls[Len(fetchCalls) + 1].
FetchCss(url) ==
    IF InflightHas(url)
    THEN /\ fetchCalls' = Append(fetchCalls,
                [url |-> url, role |-> "joiner", pid |-> inflight[url],
                 state |-> "pending", ok |-> FALSE, text |-> NoBody,
                 err |-> NoError, sawInflight |-> inflight[url],
                 cached |-> cssTextCache[url][1],
                 peers |-> PendingFetchCalls(url)])
         /\ UNCHANGED <<promises, inflight, fetches>>
    ELSE /\ promises' = Append(promises, NewPromise(url))
         /\ inflight' = InflightSet(inflight, url, Len(promises) + 1)
         /\ fetches' = IF CacheHas(url) THEN fetches
                       ELSE [fetches EXCEPT ![url] = @ + 1]
         /\ fetchCalls' = Append(fetchCalls,
                [url |-> url, role |-> "creator", pid |-> Len(promises) + 1,
                 state |-> "pending", ok |-> FALSE, text |-> NoBody,
                 err |-> NoError, sawInflight |-> NoPromise,
                 cached |-> cssTextCache[url][1],
                 peers |-> PendingFetchCalls(url)])

\* The retrieval of promise p settles, index.ts:268-274.  `await fetch(url)`
\* and `await res.text()` are two waits with nothing but the local `res`
\* between them, so they are one step here: a response with res.ok whose
\* body is read (the text is cached and p resolves with it), a response
\* with a non-success status (the Error of line 270 is thrown), or a
\* network failure in either wait.
RetrievalSettles(p) ==
    /\ p \in 1..Len(promises)
    /\ promises[p].state = "fetch"
    /\ \/ /\ cssTextCache' = CacheSet(cssTextCache, promises[p].url, Body(p))
          /\ promises' = [promises EXCEPT ![p].state = "resolved",
                                          ![p].text = Body(p)]
       \/ /\ promises' = [promises EXCEPT ![p].state = "rejected",
                                          ![p].err = <<"status", p>>]
          /\ UNCHANGED cssTextCache
       \/ /\ promises' = [promises EXCEPT ![p].state = "rejected",
                                          ![p].err = <<"network", p>>]
          /\ UNCHANGED cssTextCache
    /\ UNCHANGED <<supportsAdopted, sheetCache, inflight, sheets,
                   fetchCalls, calls, appliedCssUrls, adoptedStyleSheets,
                   styleElements, fetches, ctxVars>>

\* a fetchCss that resolves whatever became of the retrieval
FetchCallSettledOk(f) ==
    [f EXCEPT !.state = "settled",
              !.ok = TRUE,
              !.text = promises[f.pid].text,
              !.err = promises[f.pid].err]

\* The fetchCss call f settles once the promise it awaits (the creator,
\* index.ts:278-282, running the finally block first) or returned (a
\* joiner, index.ts:261) has settled; it takes that promise's outcome.
FetchCallSettled(f) ==
    [f EXCEPT !.state = "settled",
              !.ok = promises[f.pid].state = "resolved",
              !.text = promises[f.pid].text,
              !.err = promises[f.pid].err]

-----------------------------------------------------------------------------
(* HalixLitElement.addStylesheet and addStylesheets, index.ts:336-379 *)

\* an addStylesheet without the repeat check
AlreadyAppliedNever(i, url) == FALSE

\* this._appliedCssUrls.has(url), index.ts:337
AlreadyApplied(i, url) == url \in appliedCssUrls[i]

\* a set of applied urls shared by the instances
MarkAppliedForAll(applied, i, url) == [j \in DOMAIN applied |-> applied[j] \cup {url}]

\* an addStylesheet that does not record the url
MarkNothing(applied, i, url) == applied

\* this._appliedCssUrls.add(url), index.ts:338
MarkApplied(applied, i, url) == [applied EXCEPT ![i] = @ \cup {url}]

\* sheetCache.get(url), index.ts:345
SheetCacheGet(url) == sheetCache[url]

\* sheetCache.set(url, sheet), index.ts:349
SheetCacheSet(cache, url, sheet) == [cache EXCEPT ![url] = sheet]

\* an assignment of the new sheet alone
AdoptAlone(adopted, i, sheet) == [adopted EXCEPT ![i] = <<sheet>>]

\* root.adoptedStyleSheets = [...root.adoptedStyleSheets, sheet], index.ts:353-356
Adopt(adopted, i, sheet) == [adopted EXCEPT ![i] = Append(@, sheet)]

\* this.renderRoot.appendChild(style), index.ts:359-364
AppendStyle(els, i, url, text) ==
    [els EXCEPT ![i] = Append(@, [url |-> url, text |-> text])]

\* a loop that skips falsy entries only
SkipFalsyOnly(v) == ~Truthy(v)

\* `!url || typeof url !== 'string'`, index.ts:376
SkipEntry(v) == ~Truthy(v) \/ ~TypeofString(v)

RECURSIVE NextEntry(_, _)

\* a loop that skips one entry and takes the next one unchecked
NextEntrySkipsOne(urls, k) ==
    IF k > Len(urls) THEN k
    ELSE IF SkipEntry(urls[k]) THEN k + 1
    ELSE k

\* the for loop of index.ts:374-376: the first entry at or after k that is
\* not skipped, Len(urls) + 1 when there is none
NextEntry(urls, k) ==
    IF k > Len(urls) THEN k
    ELSE IF SkipEntry(urls[k]) THEN NextEntry(urls, k + 1)
    ELSE k

\* calls with the record of call cid set to c (a new call is appended)
Put(cid, c) ==
    IF cid > Len(calls) THEN Append(calls, c) ELSE [calls EXCEPT ![cid] = c]

\* An addStylesheet promise resolved: the call itself when it was called
\* directly, else the addStylesheets call awaiting it (index.ts:377) has
\* yet to resume.
ChildDone(c) == IF c.kind = "single" THEN "resolved" ELSE "child_done"

\* an addStylesheet that logs the error and does not rethrow it
ChildFailedSwallowed(c) == ChildDone(c)

\* An addStylesheet promise rejected (`throw err`, index.ts:368): the call
\* itself when it was called directly, else the `await` of index.ts:377
\* throws in addStylesheets, which has no handler, so its promise rejects.
ChildFailed(c) == "rejected"

NewCall(i, kind, urls) ==
    [inst |-> i, kind |-> kind, urls |-> urls, idx |-> 1, pc |-> "start",
     fc |-> 0, sheet |-> NoSheet, started |-> <<>>, err |-> NoError]

\* The synchronous part of addStylesheet(url), index.ts:336-341, run for
\* call cid: return at once on a repeat, else mark the url and call
\* fetchCss.
AddStylesheet(cid, c, url) ==
    IF AlreadyApplied(c.inst, url)
    THEN /\ calls' = Put(cid, [c EXCEPT !.pc = ChildDone(c), !.fc = 0,
                                        !.started = Append(@, url)])
         /\ UNCHANGED <<appliedCssUrls, promises, inflight, fetches, fetchCalls>>
    ELSE /\ appliedCssUrls' = MarkApplied(appliedCssUrls, c.inst, url)
         /\ FetchCss(url)
         /\ calls' = Put(cid, [c EXCEPT !.pc = "fetch_wait",
                                        !.fc = Len(fetchCalls) + 1,
                                        !.started = Append(@, url)])

\* The loop of addStylesheets from entry k on, index.ts:374-378, up to its
\* next await: skip what is skipped, call addStylesheet on the first entry
\* that is not, or return when the array is exhausted.
AddStylesheetsLoop(cid, c, k) ==
    LET j == NextEntry(c.urls, k) IN
    IF j > Len(c.urls)
    THEN /\ calls' = Put(cid, [c EXCEPT !.idx = j, !.pc = "resolved"])
         /\ UNCHANGED <<appliedCssUrls, promises, inflight, fetches, fetchCalls>>
    ELSE AddStylesheet(cid, [c EXCEPT !.idx = j], c.urls[j])

\* urls handed in by the calls made so far
RECURSIVE Entries(_)
Entries(k) == IF k = 0 THEN 0 ELSE Len(calls[k].urls) + Entries(k - 1)

\* Instances are interchangeable: they are numbered in the order of their
\* first call.
InstanceInUse(i) == i = 1 \/ \E k \in 1..Len(calls) : calls[k].inst >= i - 1

\* Urls are interchangeable too: UrlA is the first one handed in.
UrlsInUse(urls) ==
    \A k \in 1..Len(urls) :
        urls[k] = UrlB =>
            \/ \E j \in 1..(k - 1) : urls[j] = UrlA
            \/ \E c \in 1..Len(calls) :
                    \E j \in 1..Len(calls[c].urls) : calls[c].urls[j] = UrlA

\* a caller (a subclass) calls this.addStylesheet(v) on instance i
CallAddStylesheet(i, v) ==
    /\ InstanceInUse(i)
    /\ UrlsInUse(<<v>>)
    /\ AddStylesheet(Len(calls) + 1, NewCall(i, "single", <<v>>), v)
    /\ UNCHANGED <<supportsAdopted, sheetCache, cssTextCache, sheets,
                   adoptedStyleSheets, styleElements, ctxVars>>

\* a caller calls this.addStylesheets(urls) on instance i
CallAddStylesheets(i, urls) ==
    /\ InstanceInUse(i)
    /\ UrlsInUse(urls)
    /\ AddStylesheetsLoop(Len(calls) + 1, NewCall(i, "multi", urls), 1)
    /\ UNCHANGED <<supportsAdopted, sheetCache, cssTextCache, sheets,
                   adoptedStyleSheets, styleElements, ctxVars>>

\* The fetchCss call awaited by call cid settles, index.ts:278-283 (the
\* creator: the finally block deletes the inflight entry) or index.ts:261
\* (a joiner: the returned promise has settled).
FetchCssSettles(cid) ==
    /\ cid \in 1..Len(calls)
    /\ calls[cid].pc = "fetch_wait"
    /\ LET f == fetchCalls[calls[cid].fc] IN
        /\ Settled(f.pid)
        /\ fetchCalls' = [fetchCalls EXCEPT ![calls[cid].fc] = FetchCallSettled(f)]
        /\ inflight' = IF f.role = "creator"
                       THEN InflightDelete(inflight, f.url) ELSE inflight
    /\ calls' = [calls EXCEPT ![cid].pc = "fetched"]
    /\ UNCHANGED <<supportsAdopted, sheetCache, cssTextCache, promises, sheets,
                   appliedCssUrls, adoptedStyleSheets, styleElements, fetches,
                   ctxVars>>

\* addStylesheet resumes after `await fetchCss(url)`, index.ts:341-369, and
\* runs to its end or to `await sheet.replace(cssText)`.
AddStylesheetResumes(cid) ==
    /\ cid \in 1..Len(calls)
    /\ calls[cid].pc = "fetched"
    /\ LET c == calls[cid]
           f == fetchCalls[c.fc]
       IN
        \/ \* fetchCss rejected: catch, console.error, rethrow (366-369)
           /\ ~f.ok
           /\ calls' = [calls EXCEPT ![cid].pc = ChildFailed(c),
                                     ![cid].err = f.err]
           /\ UNCHANGED <<sheets, adoptedStyleSheets, styleElements>>
        \/ \* the sheet is in sheetCache: adopt it (345-346, 352-356)
           /\ f.ok /\ supportsAdopted /\ SheetCacheGet(f.url) # NoSheet
           /\ adoptedStyleSheets' = Adopt(adoptedStyleSheets, c.inst, SheetCacheGet(f.url))
           /\ calls' = [calls EXCEPT ![cid].pc = ChildDone(c)]
           /\ UNCHANGED <<sheets, styleElements>>
        \/ \* no sheet yet: construct one and await replace (346-348)
           /\ f.ok /\ supportsAdopted /\ SheetCacheGet(f.url) = NoSheet
           /\ sheets' = Append(sheets, [url |-> f.url, text |-> f.text])
           /\ calls' = [calls EXCEPT ![cid].pc = "replace_wait",
                                     ![cid].sheet = Len(sheets) + 1]
           /\ UNCHANGED <<adoptedStyleSheets, styleElements>>
        \/ \* fallback: inject a <style> element (357-365)
           /\ f.ok /\ ~supportsAdopted
           /\ styleElements' = AppendStyle(styleElements, c.inst, f.url, f.text)
           /\ calls' = [calls EXCEPT ![cid].pc = ChildDone(c)]
           /\ UNCHANGED <<sheets, adoptedStyleSheets>>
    /\ UNCHANGED <<supportsAdopted, sheetCache, cssTextCache, inflight, promises,
                   fetchCalls, appliedCssUrls, fetches, ctxVars>>

\* `await sheet.replace(cssText)` settles, index.ts:348-356: the sheet is
\* stored and adopted, or replace rejected and the error is rethrown
\* (index.ts:366-369).
ReplaceSettles(cid) ==
    /\ cid \in 1..Len(calls)
    /\ calls[cid].pc = "replace_wait"
    /\ LET c == calls[cid]
           url == fetchCalls[c.fc].url
       IN
        \/ /\ sheetCache' = SheetCacheSet(sheetCache, url, c.sheet)
           /\ adoptedStyleSheets' = Adopt(adoptedStyleSheets, c.inst, c.sheet)
           /\ calls' = [calls EXCEPT ![cid].pc = ChildDone(c)]
        \/ /\ calls' = [calls EXCEPT ![cid].pc = ChildFailed(c),
                                     ![cid].err = ReplaceError(c.sheet)]
           /\ UNCHANGED <<sheetCache, adoptedStyleSheets>>
    /\ UNCHANGED <<supportsAdopted, cssTextCache, inflight, promises, sheets,
                   fetchCalls, appliedCssUrls, styleElements, fetches, ctxVars>>

\* addStylesheets resumes after `await this.addStylesheet(url)` resolved,
\* index.ts:377, and goes on with the next entry.
AddStylesheetsResumes(cid) ==
    /\ cid \in 1..Len(calls)
    /\ calls[cid].pc = "child_done"
    /\ AddStylesheetsLoop(cid, calls[cid], calls[cid].idx + 1)
    /\ UNCHANGED <<supportsAdopted, sheetCache, cssTextCache, sheets,
                   adoptedStyleSheets, styleElements, ctxVars>>

-----------------------------------------------------------------------------
(* HalixLitElement context setter, index.ts:304-330 *)

NoSession == [present |-> FALSE, organizationProxyKey |-> ""]
Session(key) == [present |-> TRUE, organizationProxyKey |-> key]

\* _context before the first assignment (index.ts:293), and an assignment
\* of undefined or null
UndefinedContext == [defined |-> FALSE, session |-> NoSession]
Context(session) == [defined |-> TRUE, session |-> session]

\* what the platform may assign to the context property
Contexts ==
    {UndefinedContext, Context(NoSession), Context(Session("")),
     Context(Session("org1")), Context(Session("org2"))}

\* a setter that asks for a session only
ReadyWithAnySession(val) == val.defined /\ val.session.present

\* `val?.session?.organizationProxyKey` as the condition of index.ts:308
Ready(val) ==
    /\ val.defined
    /\ val.session.present
    /\ val.session.organizationProxyKey # ""

\* What a subclass's onContextAvailable override may do (index.ts:321 is
\* abstract): return without initializing, call this.initializeContext
\* (index.ts:327-330, as the comments of 309-310 and 319 ask) and return,
\* raise by itself, or call this.initializeContext whose
\* actionSdk.initialize raises.
Hooks == {"returns", "initializes", "raises", "initializeRaises"}

\* the invocations the hook h makes, in order, starting with its own
HookLog(h) ==
    IF h \in {"initializes", "initializeRaises"}
    THEN <<"onContextAvailable", "initializeContext">>
    ELSE <<"onContextAvailable">>

HookRaises(h) == h \in {"raises", "initializeRaises"}

\* what `set context(val)` invokes, in order, index.ts:308-313
SetterLog(val, h) ==
    IF Ready(val)
    THEN IF HookRaises(h) THEN HookLog(h)
         ELSE HookLog(h) \o <<"requestUpdate">>
    ELSE <<>>

NothingInvoked == [onContextAvailable |-> 0, initializeContext |-> 0,
                   requestUpdate |-> 0]

Count(log, what) == Cardinality({k \in 1..Len(log) : log[k] = what})

RECURSIVE Assignments(_)
Assignments(S) ==
    IF S = {} THEN 0
    ELSE LET i == CHOOSE j \in S : TRUE IN assignments[i] + Assignments(S \ {i})

\* a setter that keeps the value it had when the assigned one is not ready
StoreWhenReady(old, val) == IF Ready(val) THEN val ELSE old

\* `this._context = val`, index.ts:306: the new value of _context
Store(old, val) == val

\* a setter that catches what the hook raises
Swallows(hookThrew) == FALSE

\* the setter has no try block (index.ts:304-314): it ends with an
\* exception when the hook does
Propagates(hookThrew) == hookThrew

\* The body of `set context(val)` on instance i, index.ts:305-313, where
\* log is what it invokes: _context is replaced first, so that is what the
\* hook finds when it runs; an exception of the hook leaves the setter
\* through no handler.
RunSetter(i, val, h, log) ==
    /\ Assignments(Instances) < MaxSets
    /\ context' = [context EXCEPT ![i] = Store(@, val)]
    /\ hookSaw' = [hookSaw EXCEPT ![i] =
            IF Count(log, "onContextAvailable") > 0
            THEN Append(@, Store(context[i], val)) ELSE @]
    /\ hookRaised' = [hookRaised EXCEPT ![i] =
            Count(log, "onContextAvailable") > 0 /\ HookRaises(h)]
    /\ raised' = [raised EXCEPT ![i] =
            Propagates(Count(log, "onContextAvailable") > 0 /\ HookRaises(h))]
    /\ setterLog' = [setterLog EXCEPT ![i] = log]
    /\ invoked' = [invoked EXCEPT ![i] =
            [what \in DOMAIN NothingInvoked |-> @[what] + Count(log, what)]]
    /\ assignments' = [assignments EXCEPT ![i] = @ + 1]
    /\ assigned' = [assigned EXCEPT ![i] = val]
    /\ history' = [history EXCEPT ![i] = Append(@, val)]
    /\ UNCHANGED <<cssVars, sdkVars>>

\* a setter with an "already initialized" latch
SetContextLatched(i, val, h) ==
    RunSetter(i, val, h,
              IF invoked[i].onContextAvailable > 0 THEN <<>>
              ELSE SetterLog(val, h))

\* the platform assigns val to instance i's context property; the subclass
\* hook behaves as h
SetContext(i, val, h) == RunSetter(i, val, h, SetterLog(val, h))

-----------------------------------------------------------------------------
(* initializeContext, index.ts:232-250 *)

\* JavaScript values that the function only passes on: <<typeof, value>>
Undefined == <<"undefined", "">>
Str(s) == <<"string", s>>
Ref(kind, name) == <<kind, name>>

\* an object with an objKey property (session.sandbox, session.userProxy),
\* and undefined or null in its place
Keyed(key) == [tag |-> "object", objKey |-> Str(key)]
NoKeyed(tag) == [tag |-> tag, objKey |-> Undefined]

\* context.session as an object, and undefined or null in its place
SessionObject(sandbox, userProxy, orgKey) ==
    [tag |-> "object", sandbox |-> sandbox, user |-> Ref("object", "user1"),
     userProxy |-> userProxy, organizationProxy |-> Ref("object", "orgProxy1"),
     organizationProxyKey |-> Str("opk1"), organizationKey |-> orgKey]
NoSessionObject(tag) ==
    [tag |-> tag, sandbox |-> NoKeyed("undefined"), user |-> Undefined,
     userProxy |-> NoKeyed("undefined"), organizationProxy |-> Undefined,
     organizationProxyKey |-> Undefined, organizationKey |-> Undefined]

\* the `context` argument as an object, and undefined in its place
ContextObject(session, serviceAddress) ==
    [tag |-> "object", authTokenRetriever |-> Ref("function", "retriever1"),
     session |-> session, serviceAddress |-> serviceAddress,
     pageContext |-> Ref("object", "page1")]
NoContextObject ==
    [tag |-> "undefined", authTokenRetriever |-> Undefined,
     session |-> NoSessionObject("undefined"), serviceAddress |-> Undefined,
     pageContext |-> Undefined]

SessionObjects ==
    {NoSessionObject("undefined"), NoSessionObject("null")} \cup
    {SessionObject(sb, up, ok) :
        sb \in {Keyed("sbx1"), NoKeyed("undefined")},
        up \in {Keyed("up1"), NoKeyed("null")},
        ok \in {Str("org1"), Undefined}}

\* what a caller may pass as `context`
ContextObjects ==
    {NoContextObject} \cup
    {ContextObject(se, sa) : se \in SessionObjects,
                             sa \in {Str("https://svc"), Undefined}}

Nullish(o) == o.tag \in {"undefined", "null"}

\* `o.f`, index.ts:235, 237, 238: a TypeError when o is undefined or null
Get(o, f) == [threw |-> Nullish(o), value |-> o[f]]

\* a property read without `?`
StrictGet(o, f, undef) == [threw |-> o.threw \/ Nullish(o.value), value |-> o.value[f]]

\* `o?.f`, index.ts:236, 240-245, on the outcome o of the chain so far:
\* undefined (undef, in the shape of what f holds) when o is undefined or
\* null
OptionalGet(o, f, undef) ==
    [threw |-> o.threw,
     value |-> IF Nullish(o.value) THEN undef ELSE o.value[f]]

\* The evaluation of the object literal of index.ts:233-249: the config, and
\* whether a property read threw.
Config(ctx) ==
    LET session == Get(ctx, "session")
        sandbox == OptionalGet(session, "sandbox", NoKeyed("undefined"))
        userProxy == OptionalGet(session, "userProxy", NoKeyed("undefined"))
        reads == [
            authTokenRetriever |-> Get(ctx, "authTokenRetriever"),
            sandboxKey |-> OptionalGet(sandbox, "objKey", Undefined),
            serviceAddress |-> Get(ctx, "serviceAddress"),
            actionSubject |-> Get(ctx, "pageContext"),
            user |-> OptionalGet(session, "user", Undefined),
            userProxy |-> userProxy,
            orgProxy |-> OptionalGet(session, "organizationProxy", Undefined),
            orgProxyKey |-> OptionalGet(session, "organizationProxyKey", Undefined),
            orgKey |-> OptionalGet(session, "organizationKey", Undefined),
            userProxyKey |-> OptionalGet(userProxy, "objKey", Undefined)]
    IN  [threw |-> \E f \in DOMAIN reads : reads[f].threw,
         body |-> [
            authTokenRetriever |-> reads.authTokenRetriever.value,
            sandboxKey |-> reads.sandboxKey.value,
            serviceAddress |-> reads.serviceAddress.value,
            actionSubject |-> reads.actionSubject.value,
            userContext |-> [
                user |-> reads.user.value,
                userProxy |-> reads.userProxy.value,
                orgProxy |-> reads.orgProxy.value,
                orgProxyKey |-> reads.orgProxyKey.value,
                orgKey |-> reads.orgKey.value,
                userProxyKey |-> reads.userProxyKey.value],
            params |-> {}]]

\* initializeContext(context, actionSdk), index.ts:232-250: the argument of
\* actionSdk.initialize is evaluated, which throws or not, and then
\* actionSdk.initialize is called with it.
InitializeContext(ctx) ==
    /\ Len(initializeCalls) < MaxInitializeCalls
    /\ initializeCalls' = Append(initializeCalls,
            [context |-> ctx, threw |-> Config(ctx).threw,
             before |-> Len(sdkCalls)])
    /\ sdkCalls' = IF Config(ctx).threw THEN sdkCalls
                   ELSE Append(sdkCalls, [body |-> Config(ctx).body])
    /\ UNCHANGED <<cssVars, context, setterLog, invoked, assignments, assigned,
                   history, hookSaw, raised, hookRaised>>

-----------------------------------------------------------------------------
(* Specification *)

\* urls the callers may still hand in, of max in all
EntriesLeft(max) == max - Entries(Len(calls))

\* arrays of at most n entries a caller may hand to addStylesheets
UrlArrays(S, n) == UNION {[1..k -> S] : k \in 1..n}

Init ==
    /\ supportsAdopted \in BOOLEAN
    /\ sheetCache = [v \in Values |-> NoSheet]
    /\ cssTextCache = [v \in Values |-> NoText]
    /\ inflight = [v \in Values |-> NoPromise]
    /\ promises = <<>>
    /\ sheets = <<>>
    /\ fetchCalls = <<>>
    /\ calls = <<>>
    /\ appliedCssUrls = [i \in Instances |-> {}]
    /\ adoptedStyleSheets = [i \in Instances |-> <<>>]
    /\ styleElements = [i \in Instances |-> <<>>]
    /\ fetches = [v \in Values |-> 0]
    /\ context = [i \in Instances |-> UndefinedContext]
    /\ setterLog = [i \in Instances |-> <<>>]
    /\ invoked = [i \in Instances |-> NothingInvoked]
    /\ assignments = [i \in Instances |-> 0]
    /\ assigned = [i \in Instances |-> UndefinedContext]
    /\ history = [i \in Instances |-> <<>>]
    /\ hookSaw = [i \in Instances |-> <<>>]
    /\ raised = [i \in Instances |-> FALSE]
    /\ hookRaised = [i \in Instances |-> FALSE]
    /\ initializeCalls = <<>>
    /\ sdkCalls = <<>>

\* the callers' calls, handing in values of S, max in all
Calls(S, max) ==
    \/ \E v \in {w \in S : EntriesLeft(max) > 0}, i \in Instances :
            CallAddStylesheet(i, v)
    \/ \E urls \in UrlArrays(S, EntriesLeft(max)), i \in Instances :
            CallAddStylesheets(i, urls)

\* the continuations of the calls made
Continuations ==
    \/ \E p \in 1..Len(promises) : RetrievalSettles(p)
    \/ \E cid \in 1..Len(calls) : FetchCssSettles(cid)
    \/ \E cid \in 1..Len(calls) : AddStylesheetResumes(cid)
    \/ \E cid \in 1..Len(calls) : ReplaceSettles(cid)
    \/ \E cid \in 1..Len(calls) : AddStylesheetsResumes(cid)

\* any values handed in, by any instances
Next == Calls(Values, MaxEntries) \/ Continuations

Spec == Init /\ [][Next]_vars

\* one url handed in, by any instances in any interleaving
NextOneUrl == Calls({UrlA}, MaxOneUrlEntries) \/ Continuations

SpecOneUrl == Init /\ [][NextOneUrl]_vars

NextContext ==
    \E i \in Instances, val \in Contexts, h \in Hooks : SetContext(i, val, h)

SpecContext == Init /\ [][NextContext]_vars

\* The continuation of call cid that the job queue holds once the promise
\* it awaits has settled.  The promises awaited at index.ts:279, 341 and 377
\* are settled by this code; the job queue runs every job it holds.
Job(cid) ==
    \/ FetchCssSettles(cid)
    \/ AddStylesheetResumes(cid)
    \/ AddStylesheetsResumes(cid)

\* two urls handed in, by any instances in any interleaving
NextLive == Calls({UrlA, UrlB}, MaxLiveEntries) \/ Continuations

\* Every queued job runs.  Nothing is assumed of fetch, res.text() and
\* sheet.replace, which the environment settles or not.
SpecLive ==
    /\ Init
    /\ [][NextLive]_vars
    /\ \A cid \in 1..MaxLiveEntries : WF_vars(Job(cid))

NextInitialize == \E ctx \in ContextObjects : InitializeContext(ctx)

SpecInitialize == Init /\ [][NextInitialize]_vars

-----------------------------------------------------------------------------
(* Properties *)

FetchCallIds == 1..Len(fetchCalls)
PromiseIds == 1..Len(promises)
CallIds == 1..Len(calls)

\* retrievals of url that have been issued and have not settled
Outstanding(url) ==
    {p \in PromiseIds : promises[p].url = url /\ promises[p].state = "fetch"}

OneOutstanding == \A url \in Values : Cardinality(Outstanding(url)) <= 1

BothSettled(f, g) ==
    fetchCalls[f].state = "settled" /\ fetchCalls[g].state = "settled"

SameOutcome(f, g) ==
    /\ fetchCalls[f].ok = fetchCalls[g].ok
    /\ fetchCalls[f].text = fetchCalls[g].text
    /\ fetchCalls[f].err = fetchCalls[g].err

\* the retrievals performed for the fetchCss calls f and g
RetrievalsBehind(f, g) ==
    {p \in {fetchCalls[f].pid, fetchCalls[g].pid} : promises[p].issued}

\* C1 as stated: at most one outstanding retrieval per url, and fetchCss
\* calls for a url that were issued before any of them settled (g was
\* pending when f was issued) rest on exactly one retrieval and settle with
\* the same outcome.
C1_AsStated ==
    /\ OneOutstanding
    /\ \A f \in FetchCallIds : \A g \in fetchCalls[f].peers :
        BothSettled(f, g) =>
            /\ SameOutcome(f, g)
            /\ Cardinality(RetrievalsBehind(f, g)) = 1

\* C1, amended: at most one outstanding retrieval per url; a fetchCss call
\* issued while a call that registered the in-flight entry (a creator) is
\* still pending joins that call's promise, the two rest on at most one
\* retrieval (on one unless the creator found the text cached, and then its
\* promise is the cached text), and they settle with the same outcome.
C1_InFlightDedup ==
    /\ OneOutstanding
    /\ \A f \in FetchCallIds : \A g \in fetchCalls[f].peers :
        fetchCalls[g].role = "creator" =>
            /\ fetchCalls[f].role = "joiner"
            /\ fetchCalls[f].pid = fetchCalls[g].pid
            /\ Cardinality(RetrievalsBehind(f, g)) <= 1
            /\ \/ promises[fetchCalls[g].pid].issued
               \/ /\ promises[fetchCalls[g].pid].state = "resolved"
                  /\ cssTextCache[fetchCalls[g].url] =
                        <<TRUE, promises[fetchCalls[g].pid].text>>
            /\ BothSettled(f, g) => SameOutcome(f, g)

\* a creator and a call that joined it have both settled, rejected
C1_Witness ==
    \E f \in FetchCallIds : \E g \in fetchCalls[f].peers :
        /\ fetchCalls[g].role = "creator"
        /\ BothSettled(f, g)
        /\ ~fetchCalls[f].ok

\* C2 as stated: with shareable stylesheets, the sheetCache entry of a url
\* is never overwritten once set and every instance that adopts a sheet for
\* the url adopts the same object: every sheet in an adopted-sheet list is
\* the sheetCache entry of its url.
C2_AsStated ==
    \A i \in Instances : \A k \in 1..Len(adoptedStyleSheets[i]) :
        LET sheet == adoptedStyleSheets[i][k] IN
        sheetCache[sheets[sheet].url] = sheet

\* C3 as stated: an assignment of a ready context invokes, in this order,
\* the Context Initializer, the onContextAvailable hook and the framework
\* notification.
C3_AsStated ==
    \A i \in Instances :
        (assignments[i] > 0 /\ Ready(assigned[i])) =>
            setterLog[i] = <<"initializeContext", "onContextAvailable",
                             "requestUpdate">>

\* null or undefined, no session, or an empty organizationProxyKey
NotReady(val) ==
    \/ ~val.defined
    \/ ~val.session.present
    \/ val.session.organizationProxyKey = ""

\* C4: an assignment of a context that is not ready invokes nothing (no
\* initializer, no hook, no notification); the stored context is the
\* assigned value.
C4_NotReadyOnlyStores ==
    \A i \in Instances :
        (assignments[i] > 0 /\ NotReady(assigned[i])) =>
            /\ setterLog[i] = <<>>
            /\ context[i] = assigned[i]

\* an instance was assigned a ready context and then one with an empty key
C4_Witness ==
    \E i \in Instances :
        /\ assignments[i] > 1
        /\ invoked[i].onContextAvailable > 0
        /\ assigned[i] = Context(Session(""))
        /\ context[i] = Context(Session(""))

\* the fetchCss call f ran fetch(url) itself
Retrieved(f) ==
    fetchCalls[f].role = "creator" /\ promises[fetchCalls[f].pid].issued

\* the fetchCss call f had settled when the later call g was issued
Before(f, g) ==
    f < g /\ fetchCalls[f].url = fetchCalls[g].url /\ f \notin fetchCalls[g].peers

\* C5: a fetchCss call issued when cssTextCache holds the url issues no
\* retrieval, rests on a promise resolved with the cached text, and
\* resolves with the cached text.
C5_CachedNoRetrieval ==
    \A f \in FetchCallIds :
        fetchCalls[f].cached =>
            LET c == fetchCalls[f] IN
            /\ ~(c.role = "creator" /\ promises[c.pid].issued)
            /\ promises[c.pid].state = "resolved"
            /\ cssTextCache[c.url] = <<TRUE, promises[c.pid].text>>
            /\ c.state = "settled" =>
                    c.ok /\ cssTextCache[c.url] = <<TRUE, c.text>>

\* a call issued on a cached url registered its own promise and resolved
C5_Witness ==
    \E f \in FetchCallIds :
        /\ fetchCalls[f].cached
        /\ fetchCalls[f].role = "creator"
        /\ fetchCalls[f].state = "settled"
        /\ fetches[fetchCalls[f].url] = 1

\* C6 as stated: the retrieval of a url is issued at most once, whatever
\* the sequence of fetchCss calls.
C6_AsStated == \A url \in Values : fetches[url] <= 1

\* C6, amended: the retrievals of a url are the ones the registered
\* promises issued; once one has succeeded no other is issued (the earlier
\* ones failed); and of two calls made in sequence, the second retrieves
\* nothing when the first resolved.
C6_NoRetrievalAfterSuccess ==
    /\ \A url \in Values :
        fetches[url] =
            Cardinality({p \in PromiseIds :
                            promises[p].url = url /\ promises[p].issued})
    /\ \A p \in PromiseIds :
        (promises[p].issued /\ promises[p].state = "resolved") =>
            \A q \in PromiseIds \ {p} :
                (promises[q].url = promises[p].url /\ promises[q].issued) =>
                    q < p /\ promises[q].state = "rejected"
    /\ \A g \in FetchCallIds : \A f \in 1..(g - 1) :
        (Before(f, g) /\ fetchCalls[f].ok) => ~Retrieved(g)

\* a call failed, a later call retrieved again and resolved, and a third
\* call made after that has settled
C6_Witness ==
    \E f, g, h \in FetchCallIds :
        /\ Before(f, g) /\ Before(g, h)
        /\ fetchCalls[f].state = "settled" /\ ~fetchCalls[f].ok
        /\ Retrieved(g) /\ fetchCalls[g].ok
        /\ fetchCalls[h].state = "settled"

\* how many times the render root of instance i holds the style of url, as
\* an adopted sheet or as a <style> element
StyleCount(i, url) ==
    Cardinality({k \in 1..Len(adoptedStyleSheets[i]) :
                    sheets[adoptedStyleSheets[i][k]].url = url})
    + Cardinality({k \in 1..Len(styleElements[i]) :
                    styleElements[i][k].url = url})

\* C7: the render root of an instance holds the style of a url at most
\* once, and exactly once when an addStylesheet that fetched it has
\* finished successfully.
C7_AppliedOnce ==
    /\ \A i \in Instances : \A url \in Values : StyleCount(i, url) <= 1
    /\ \A c \in CallIds :
        (calls[c].pc \in {"resolved", "child_done"} /\ calls[c].fc # 0) =>
            StyleCount(calls[c].inst, fetchCalls[calls[c].fc].url) = 1

\* three calls on one instance naming one url have resolved, the second
\* and third made while the first was pending, and the root holds the
\* style once
C7_Witness ==
    \E i \in Instances :
        /\ Len(calls) = 3
        /\ \A c \in CallIds :
            /\ calls[c].inst = i
            /\ calls[c].pc = "resolved"
            /\ calls[c].urls = <<UrlA>>
        /\ Len(fetchCalls) = 1
        /\ StyleCount(i, UrlA) = 1

\* a non-empty string
Valid(v) == v[1] = "string" /\ v[2] # ""

\* the entries among the first n of urls that are non-empty strings
ValidPrefix(urls, n) ==
    SelectSeq(SubSeq(urls, 1, IF n < Len(urls) THEN n ELSE Len(urls)), Valid)

\* the addStylesheet of call c is past its fetch
PastFetch(c) == calls[c].pc \notin {"start", "fetch_wait", "fetched"}

\* C8: addStylesheets has called addStylesheet for exactly the non-empty
\* strings among the entries up to its current one, in array order, one at
\* a time; when one fails the call rejects there; and (seen where it is the
\* only call made) every earlier url is applied before the next is
\* started, and after a failure no later url is marked, fetched or applied.
C8_InOrderAbortOnFailure ==
    \A c \in CallIds :
        calls[c].kind = "multi" =>
            LET call == calls[c] IN
            /\ call.idx <= Len(call.urls) + 1
            /\ call.started = ValidPrefix(call.urls, call.idx)
            /\ (call.fc # 0 /\ PastFetch(c) /\ ~fetchCalls[call.fc].ok) =>
                    call.pc = "rejected"
            /\ call.pc = "rejected" => call.idx <= Len(call.urls)
            /\ (Len(calls) = 1 /\ call.pc # "rejected") =>
                \A k \in 1..(call.idx - 1) :
                    (k <= Len(call.urls) /\ Valid(call.urls[k])) =>
                        StyleCount(call.inst, call.urls[k]) = 1
            /\ (Len(calls) = 1 /\ call.pc = "rejected") =>
                \A k \in (call.idx + 1)..Len(call.urls) :
                    (\A j \in 1..call.idx : call.urls[j] # call.urls[k]) =>
                        /\ call.urls[k] \notin appliedCssUrls[call.inst]
                        /\ fetches[call.urls[k]] = 0
                        /\ StyleCount(call.inst, call.urls[k]) = 0

\* addStylesheets([a, b]) rejected at a, and b was never touched
C8_Witness ==
    \E c \in CallIds :
        /\ calls[c].kind = "multi"
        /\ calls[c].urls = <<UrlA, UrlB>>
        /\ calls[c].pc = "rejected"
        /\ calls[c].idx = 1
        /\ UrlB \notin appliedCssUrls[calls[c].inst]

\* C9: a failed fetchCss call rejects with the error of its retrieval;
\* whenever no fetchCss call for a url is pending, inflight has no entry
\* for it; when moreover the last call failed, cssTextCache has no entry
\* either; and the next call made then issues a fresh retrieval.
C9_FailureNotCached ==
    /\ \A url \in Values :
        PendingFetchCalls(url) = {} => inflight[url] = NoPromise
    /\ \A f \in FetchCallIds :
        fetchCalls[f].state = "settled" =>
            /\ fetchCalls[f].ok = (promises[fetchCalls[f].pid].state = "resolved")
            /\ ~fetchCalls[f].ok =>
                    /\ fetchCalls[f].err # NoError
                    /\ fetchCalls[f].err = promises[fetchCalls[f].pid].err
    /\ \A f \in FetchCallIds :
        (/\ PendingFetchCalls(fetchCalls[f].url) = {}
         /\ ~fetchCalls[f].ok
         /\ \A g \in FetchCallIds : fetchCalls[g].url = fetchCalls[f].url => g <= f)
            => cssTextCache[fetchCalls[f].url] = NoText
    /\ \A g \in FetchCallIds : \A f \in 1..(g - 1) :
        (/\ fetchCalls[g].url = fetchCalls[f].url
         /\ fetchCalls[g].peers = {}
         /\ ~fetchCalls[f].ok
         /\ \A h \in (f + 1)..(g - 1) : fetchCalls[h].url # fetchCalls[f].url)
            => Retrieved(g)

\* a call failed with a non-success status, nothing was pending, and the
\* next call issued a fresh retrieval, which failed too
C9_Witness ==
    \E f, g \in FetchCallIds :
        /\ Before(f, g)
        /\ fetchCalls[f].err[1] = "status"
        /\ fetchCalls[g].peers = {}
        /\ Retrieved(g)
        /\ fetchCalls[g].state = "settled" /\ ~fetchCalls[g].ok
        /\ PendingFetchCalls(fetchCalls[g].url) = {}

\* no value that is falsy or not a string is in an applied-URL set, was
\* fetched, or has a style in a render root
NothingInvalidApplied ==
    \A v \in Values :
        ~Valid(v) =>
            /\ fetches[v] = 0
            /\ \A i \in Instances :
                v \notin appliedCssUrls[i] /\ StyleCount(i, v) = 0

\* C10 as stated: addStylesheet(url) with a falsy or non-string url adds
\* nothing to the applied-URL set, issues no fetch and leaves the render
\* root alone.
C10_AsStated == NothingInvalidApplied

\* C10, amended: addStylesheets skips every entry that is falsy or not a
\* string: it never calls addStylesheet for one, a call given such entries
\* only resolves at once, and when addStylesheets calls are the only calls
\* made, no such value is marked, fetched or applied.
C10_AddStylesheetsSkips ==
    /\ \A c \in CallIds :
        calls[c].kind = "multi" =>
            /\ \A k \in 1..Len(calls[c].started) : Valid(calls[c].started[k])
            /\ (\A k \in 1..Len(calls[c].urls) : ~Valid(calls[c].urls[k])) =>
                    calls[c].pc = "resolved" /\ calls[c].fc = 0
    /\ (\A c \in CallIds : calls[c].kind = "multi") => NothingInvalidApplied

\* addStylesheets(['', 42]) has resolved
C10_Witness ==
    \E c \in CallIds :
        /\ calls[c].kind = "multi"
        /\ calls[c].urls = <<EmptyString, Number42>>
        /\ calls[c].pc = "resolved"
        /\ appliedCssUrls[calls[c].inst] = {}

\* the url the addStylesheet call c was given
UrlOf(c) == calls[c].urls[1]

\* d is an addStylesheet call made after c on the same instance with the
\* same url
LaterSame(c, d) ==
    /\ d > c
    /\ calls[d].kind = "single"
    /\ calls[d].inst = calls[c].inst
    /\ UrlOf(d) = UrlOf(c)

\* C11: a failed addStylesheet(url) rejects with the error that made it
\* fail (the fetchCss error, or the error of sheet.replace), the url stays
\* in the instance's applied-URL set, nothing of the url is in the render
\* root, and every later addStylesheet(url) on the instance resolves at
\* once without calling fetchCss: the instance makes one fetchCss call for
\* the url in all.
C11_FailedNotRetried ==
    \A c \in CallIds :
        (calls[c].kind = "single" /\ calls[c].pc = "rejected") =>
            /\ calls[c].fc # 0
            /\ calls[c].err # NoError
            /\ calls[c].err =
                    IF fetchCalls[calls[c].fc].ok
                    THEN ReplaceError(calls[c].sheet)
                    ELSE promises[fetchCalls[calls[c].fc].pid].err
            /\ UrlOf(c) \in appliedCssUrls[calls[c].inst]
            /\ StyleCount(calls[c].inst, UrlOf(c)) = 0
            /\ \A d \in CallIds :
                LaterSame(c, d) => calls[d].pc = "resolved" /\ calls[d].fc = 0

\* an addStylesheet failed in its fetch, the same instance called it again
\* with the same url twice, and the url was retrieved once
C11_Witness ==
    \E c, d, e \in CallIds :
        /\ calls[c].kind = "single" /\ calls[c].pc = "rejected"
        /\ ~fetchCalls[calls[c].fc].ok
        /\ LaterSame(c, d) /\ LaterSame(d, e)
        /\ calls[e].pc = "resolved"
        /\ fetches[UrlOf(c)] = 1

\* the assignments to instance i, by position, whose value was a ready
\* context
ReadyAssignments(i) == {k \in 1..Len(history[i]) : ~NotReady(history[i][k])}

C13_AsStated == \A i \in Instances : invoked[i].onContextAvailable <= 1

\* the retrieval of promise p has been issued and has not settled
Retrieving(p) == p \in PromiseIds /\ promises[p].state = "fetch"

\* call c awaits sheet.replace
Constructing(c) == c \in CallIds /\ calls[c].pc = "replace_wait"

\* call c has been made and has neither resolved nor rejected
Pending(c) == c \in CallIds /\ calls[c].pc \notin {"resolved", "rejected"}

\* call c waits for a retrieval that has not settled
AwaitsRetrieval(c) ==
    /\ c \in CallIds
    /\ calls[c].pc = "fetch_wait"
    /\ promises[fetchCalls[calls[c].fc].pid].state = "fetch"

\* call c waits for a retrieval that has not settled, or for sheet.replace
Blocked(c) == AwaitsRetrieval(c) \/ Constructing(c)

\* what is assumed of the environment: no retrieval stays outstanding for
\* ever and no sheet.replace stays unsettled for ever
AllSettle ==
    /\ \A p \in 1..MaxLiveEntries : []<>~Retrieving(p)
    /\ \A c \in 1..MaxLiveEntries : []<>~Constructing(c)

\* C14 as stated: if every retrieval and every sheet.replace settles every
\* call resolves or rejects, and a call stays pending for ever only if a
\* retrieval it waits for never settles.
C14_AsStated ==
    /\ AllSettle => \A c \in 1..MaxLiveEntries : []<>~Pending(c)
    /\ \A c \in 1..MaxLiveEntries : []<>(~Pending(c) \/ AwaitsRetrieval(c))

\* C14, amended: if no retrieval stays outstanding for ever and no
\* sheet.replace stays unsettled for ever, no call of addStylesheet or
\* addStylesheets stays
\* pending for ever: every call made resolves or rejects (a call is not
\* pending before it is made nor after it has settled, so "again and again
\* not pending" is "settles once made").  And in any case a call is not
\* pending for ever unless it waits for ever for a retrieval or a
\* sheet.replace that does not settle.
C14_CallsSettle ==
    /\ AllSettle => \A c \in 1..MaxLiveEntries : []<>~Pending(c)
    /\ \A c \in 1..MaxLiveEntries : []<>(~Pending(c) \/ Blocked(c))

\* a call that joined the in-flight fetch of another call has rejected, and
\* so has the call it joined
C14_Witness ==
    \E c, d \in CallIds :
        /\ c # d
        /\ calls[c].fc # 0 /\ calls[d].fc # 0
        /\ fetchCalls[calls[c].fc].role = "joiner"
        /\ fetchCalls[calls[c].fc].pid = fetchCalls[calls[d].fc].pid
        /\ calls[c].pc = "rejected" /\ calls[d].pc = "rejected"

\* the session of a context, when it is an object
HasSession(ctx) == ctx.session.tag = "object"

\* C15: every call of initializeContext with a context object calls
\* actionSdk.initialize once, and does not fail, whatever is missing of
\* session, sandbox and userProxy; the body of the config holds the
\* context's authTokenRetriever, serviceAddress and pageContext as they
\* are, the session's user, userProxy, organizationProxy,
\* organizationProxyKey and organizationKey, the objKey of the session's
\* sandbox and userProxy (undefined for whatever is missing on the way), and
\* empty params.
C15_InitializePayload ==
    \A k \in 1..Len(initializeCalls) :
        LET call == initializeCalls[k]
            ctx == call.context
            se == ctx.session
        IN  ctx.tag = "object" =>
            /\ ~call.threw
            /\ Len(sdkCalls) > call.before
            /\ k < Len(initializeCalls) =>
                    initializeCalls[k + 1].before = call.before + 1
            /\ k = Len(initializeCalls) => Len(sdkCalls) = call.before + 1
            /\ LET body == sdkCalls[call.before + 1].body
                   uc == body.userContext
               IN
                /\ body.authTokenRetriever = Ref("function", "retriever1")
                /\ body.authTokenRetriever = ctx.authTokenRetriever
                /\ body.serviceAddress = ctx.serviceAddress
                /\ body.actionSubject = ctx.pageContext
                /\ body.params = {}
                /\ HasSession(ctx) =>
                    /\ uc.user = se.user
                    /\ uc.userProxy = se.userProxy
                    /\ uc.orgProxy = se.organizationProxy
                    /\ uc.orgProxyKey = se.organizationProxyKey
                    /\ uc.orgKey = se.organizationKey
                    /\ body.sandboxKey =
                            IF se.sandbox.tag = "object"
                            THEN se.sandbox.objKey ELSE Undefined
                    /\ uc.userProxyKey =
                            IF se.userProxy.tag = "object"
                            THEN se.userProxy.objKey ELSE Undefined
                /\ ~HasSession(ctx) =>
                    /\ body.sandboxKey = Undefined
                    /\ uc.user = Undefined
                    /\ uc.userProxy.tag = "undefined"
                    /\ uc.orgProxy = Undefined
                    /\ uc.orgProxyKey = Undefined
                    /\ uc.orgKey = Undefined
                    /\ uc.userProxyKey = Undefined

\* initializeContext was called with the context of the scenario (sandbox
\* sbx1, organizationKey org1, service address https://svc) and then with a
\* context whose session is null
C15_Witness ==
    /\ Len(initializeCalls) = 2
    /\ Len(sdkCalls) = 2
    /\ initializeCalls[1].context =
            ContextObject(SessionObject(Keyed("sbx1"), NoKeyed("null"), Str("org1")),
                          Str("https://svc"))
    /\ sdkCalls[1].body.sandboxKey = Str("sbx1")
    /\ sdkCalls[1].body.userContext.orgKey = Str("org1")
    /\ sdkCalls[1].body.serviceAddress = Str("https://svc")
    /\ initializeCalls[2].context.session = NoSessionObject("null")

\* a step leaves the adopted-sheet list of instance i as it is, or puts one
\* sheet after the sheets it holds
AppendsOnly(i) ==
    LET old == adoptedStyleSheets[i]
        new == adoptedStyleSheets'[i]
    IN  \/ new = old
        \/ /\ Len(new) = Len(old) + 1
           /\ SubSeq(new, 1, Len(old)) = old

\* the adopted-sheet list of instance i holds a sheet of url
Adopted(i, url) ==
    \E k \in 1..Len(adoptedStyleSheets[i]) :
        sheets[adoptedStyleSheets[i][k]].url = url

\* C16: every step leaves in every adopted-sheet list the sheets that were
\* in it, in their order, a new sheet coming last; and with shareable
\* stylesheets the list of an instance holds a sheet of every url that an
\* addStylesheet of the instance fetched and applied, whatever other calls
\* ran in between.
C16_AdoptionAppends ==
    /\ [][\A i \in Instances : AppendsOnly(i)]_vars
    /\ [](\A c \in CallIds :
            (/\ supportsAdopted
             /\ calls[c].fc # 0
             /\ calls[c].pc \in {"resolved", "child_done"})
                => Adopted(calls[c].inst, fetchCalls[calls[c].fc].url))

\* two addStylesheet calls of one instance for two urls ran concurrently:
\* the sheet of the second call was adopted first, and the list holds both
C16_Witness ==
    /\ Len(calls) = 2
    /\ calls[1].inst = calls[2].inst
    /\ calls[1].urls = <<UrlA>> /\ calls[2].urls = <<UrlB>>
    /\ calls[1].pc = "resolved" /\ calls[2].pc = "resolved"
    /\ adoptedStyleSheets[calls[1].inst] = <<calls[2].sheet, calls[1].sheet>>
    /\ calls[1].sheet # NoSheet /\ calls[2].sheet # NoSheet

\* a step leaves the cssTextCache entry of url as it is, or creates it
EntryKept(url) ==
    cssTextCache[url][1] => cssTextCache'[url] = cssTextCache[url]

\* C17: once cssTextCache holds a value for a url, no step removes the
\* entry or changes its value.
C17_TextCacheAppendOnly == [][\A url \in Values : EntryKept(url)]_vars

\* the text of a url was cached by one call, a call failed in
\* sheet.replace, and a later fetchCss call settled with the cached text
C17_Witness ==
    \E f, g \in FetchCallIds :
        /\ Before(f, g)
        /\ Retrieved(f) /\ fetchCalls[f].ok
        /\ fetchCalls[g].cached /\ fetchCalls[g].state = "settled"
        /\ cssTextCache[fetchCalls[f].url] = <<TRUE, fetchCalls[f].text>>
        /\ \E c \in CallIds : calls[c].err[1] = "replace"

\* the calls that a step starts or moves on
Acting == {c \in 1..Len(calls') : c > Len(calls) \/ calls'[c] # calls[c]}

\* A step leaves the applied-URL set of instance i as it is, or adds one
\* url to it, and then the step is an addStylesheet of instance i given
\* that url (called directly or by addStylesheets).
GrowsByOwnCall(i) ==
    \/ appliedCssUrls'[i] = appliedCssUrls[i]
    \/ \E c \in Acting :
        /\ calls'[c].inst = i
        /\ calls'[c].pc = "fetch_wait"
        /\ calls'[c].urls[calls'[c].idx] \notin appliedCssUrls[i]
        /\ appliedCssUrls'[i] =
                appliedCssUrls[i] \cup {calls'[c].urls[calls'[c].idx]}
        /\ \A j \in Instances \ {i} : appliedCssUrls'[j] = appliedCssUrls[j]

\* C18: the applied-URL set of an instance never loses a url; a step that
\* changes it is an addStylesheet of that instance, adds the url it was
\* given and leaves the sets of the other instances alone; and when two
\* instances have fetched and applied one url, each has it in its own set
\* and its style in its own render root.
C18_AppliedSetOwn ==
    /\ [][\A i \in Instances : GrowsByOwnCall(i)]_vars
    /\ [](\A c \in CallIds :
            (calls[c].fc # 0 /\ calls[c].pc \in {"resolved", "child_done"}) =>
                /\ fetchCalls[calls[c].fc].url \in appliedCssUrls[calls[c].inst]
                /\ StyleCount(calls[c].inst, fetchCalls[calls[c].fc].url) >= 1)

\* two instances have applied one url, a third has not called yet
C18_Witness ==
    /\ \E c, d \in CallIds :
        /\ calls[c].inst = 1 /\ calls[d].inst = 2
        /\ calls[c].pc = "resolved" /\ calls[d].pc = "resolved"
        /\ calls[c].fc # 0 /\ calls[d].fc # 0
        /\ fetchCalls[calls[c].fc].url = fetchCalls[calls[d].fc].url
    /\ appliedCssUrls[1] = appliedCssUrls[2]
    /\ appliedCssUrls[3] = {}
    /\ \A url \in appliedCssUrls[1] : StyleCount(1, url) = 1 /\ StyleCount(2, url) = 1

\* C19: after an assignment the stored context is the assigned value,
\* ready or not, and whether the hook returned or raised; the hook has
\* found the assigned value stored every time it ran for it; and an
\* assignment whose hook raised (by itself or in the initializer it calls)
\* ended with that exception, the notification not being made.
C19_StoresFirst ==
    \A i \in Instances :
        assignments[i] > 0 =>
            /\ context[i] = assigned[i]
            /\ Len(hookSaw[i]) = invoked[i].onContextAvailable
            /\ ~NotReady(assigned[i]) =>
                    /\ hookSaw[i] # <<>>
                    /\ hookSaw[i][Len(hookSaw[i])] = assigned[i]
            /\ hookRaised[i] =>
                    /\ raised[i]
                    /\ Count(setterLog[i], "requestUpdate") = 0
            /\ raised[i] => hookRaised[i]

\* an instance holding a ready context was assigned another ready one, the
\* initializer called by the hook raised, and the new one is stored
C19_Witness ==
    \E i \in Instances :
        /\ history[i] = <<Context(Session("org1")), Context(Session("org2"))>>
        /\ setterLog[i] = <<"onContextAvailable", "initializeContext">>
        /\ raised[i]
        /\ context[i] = Context(Session("org2"))
        /\ hookSaw[i] = history[i]

\* C20 as stated: when an addStylesheet call given a non-empty string has
\* resolved, the render root of its instance holds the style of the url.
C20_AsStated ==
    \A c \in CallIds :
        (/\ calls[c].kind = "single"
         /\ Valid(UrlOf(c))
         /\ calls[c].pc = "resolved")
            => StyleCount(calls[c].inst, UrlOf(c)) >= 1

\* C21: every url with an entry in sheetCache has an entry in cssTextCache,
\* and every url whose style (an adopted sheet or a <style> element) is in
\* the render root of an instance is in the applied-URL set of that
\* instance and has an entry in cssTextCache.
C21_CachesConsistent ==
    /\ \A url \in Values :
        sheetCache[url] # NoSheet => cssTextCache[url][1]
    /\ \A i \in Instances : \A url \in Values :
        StyleCount(i, url) > 0 =>
            /\ url \in appliedCssUrls[i]
            /\ cssTextCache[url][1]

\* two urls are in sheetCache and in cssTextCache, and one instance has
\* adopted the sheets of both
C21_Witness ==
    /\ sheetCache[UrlA] # NoSheet /\ sheetCache[UrlB] # NoSheet
    /\ StyleCount(1, UrlA) = 1 /\ StyleCount(1, UrlB) = 1
    /\ cssTextCache[UrlA][1] /\ cssTextCache[UrlB][1]

====
